---- MODULE Spec2Model ----
(***************************************************************************)
(* Model of the model-invocation layer of packages/core/src/generation.ts: *)
(* generateText (single-shot text call, with its verifiable-inference      *)
(* path), the retrying generators built on it, and generateObject.         *)
(*                                                                         *)
(* An invocation is one top-level call of one exported function.  The      *)
(* code is async JavaScript: it runs to completion between awaits, so one  *)
(* action is the code between two awaits of one invocation.  The top of a  *)
(* generator's `while (true)` is a state of its own (pc = "loop"), left by *)
(* StartCall; the invocations share no state, so this adds interleavings   *)
(* and no outcomes.                                                        *)
(***************************************************************************)
EXTENDS Integers, Sequences, FiniteSets, TLC

\* Bound of the model: no invocation makes more than MaxCalls generateText
\* calls (the loops of the code are unbounded).
MaxCalls == 4

\* `let retryDelay = 1000;`
InitialDelay == 1000

\* Labels of the (possibly concurrent) top-level invocations.
Invocations == {"a", "b"}

\* failLimit of a provider that never yields a good reply: more failures
\* than an invocation of the model makes calls.
Never == MaxCalls + 1

RetryingGenerators ==
    { "generateShouldRespond", "generateTrueOrFalse", "generateTextArray",
      "generateObjectArray", "generateMessageResponse", "generateTweetActions" }

Functions ==
    RetryingGenerators \cup
        { "generateText", "generateObject", "generateObjectDeprecated" }

\* Contexts (prompts): the empty string and a non-empty one.
Contexts == { "", "prompt" }

\* Raw texts a provider or adapter can reply with.
Texts == { "", "banana", "true", " false ", "RESPOND", "[a]", "{a}", "[LIKE]" }

\* Error values a provider, adapter or proof check can reject with.
Errors == { "E1", "E2" }

----------------------------------------------------------------------------
\* Values: every JavaScript value of interest is a record [t, v].

Null == [t |-> "null", v |-> ""]

Undefined == [t |-> "undefined", v |-> ""]

Str(s) == [t |-> "string", v |-> s]

Bool(s) == [t |-> "boolean", v |-> s]

Arr(s) == [t |-> "array", v |-> s]

Err(m) == [t |-> "error", v |-> m]

\* No text.
NoText == "<none>"

\* verifyProof has not resolved in the current generateText call.
NoVerdict == "<none>"

\* The boolean verifyProof resolved with.
Verdict(valid) == IF valid THEN "true" ELSE "false"

ReferenceErrorModelSettings == Err("ReferenceError: modelSettings is not defined")

EmptyContextError == Err("generateObject context is empty")

ProofError == Err("Failed to verify inference proof")

\* undefined / null as the value of a setting or of a field.
Unset == "<undefined>"

\* The settings keys generateImage reads credentials from.
SettingKeys ==
    { "HEURIST_API_KEY", "NINETEEN_AI_API_KEY", "TOGETHER_API_KEY",
      "FAL_API_KEY", "OPENAI_API_KEY", "VENICE_API_KEY",
      "LIVEPEER_GATEWAY_URL" }

\* No request has been issued.
NoRequest == [branch |-> "none", size |-> Unset, key |-> Unset]

\* generateImage has not completed.
NoResult == [success |-> Unset, data |-> << >>, error |-> Unset]

\* The settings keys getWalletKey reads.
WalletKeys ==
    { "SOLANA_PRIVATE_KEY", "WALLET_PRIVATE_KEY", "SOLANA_PUBLIC_KEY",
      "WALLET_PUBLIC_KEY" }

\* getWalletKey has not completed; a KeypairResult without either field.
NoKey == [keypair |-> Unset, publicKey |-> Unset, error |-> Unset]

\* trimTokens has not completed.
NoTrim == [t |-> "none", text |-> << >>, error |-> Unset]

\* No caption: describeImage has not resolved, generateCaption not returned.
NoCaption == [title |-> NoText, description |-> NoText, error |-> Unset]

\* String.prototype.trim on the texts of the model.
Trim(s) ==
    CASE s = " false " -> "false"
      [] s = " cat " -> "cat"
      [] s = "a dog\n" -> "a dog"
      [] s = "\tA  b " -> "A  b"
      [] OTHER -> s

\* JavaScript truthiness of a value.
Truthy(x) ==
    /\ x.t \notin { "null", "undefined" }
    /\ ~(x.t = "string" /\ x.v = "")
    /\ ~(x.t = "boolean" /\ x.v = "false")

----------------------------------------------------------------------------
\* The response parsers of parsing.ts: a value, or Null when the text does
\* not parse.

parseShouldRespondFromText(text) ==
    IF text \in { "RESPOND", "IGNORE", "STOP" } THEN Str(text) ELSE Null

parseBooleanFromText(text) ==
    IF text = "true" THEN Bool("true")
    ELSE IF text = "false" THEN Bool("false")
    ELSE Null

parseJsonArrayFromText(text) ==
    IF text = "[a]" THEN Arr("a") ELSE Null

parseJSONObjectFromText(text) ==
    IF text = "{a}" THEN [t |-> "object", v |-> "a"] ELSE Null

\* The `actions` field of the parser's result.
parseActionResponseFromText(text) ==
    IF text = "[LIKE]" THEN [t |-> "actions", v |-> "like"] ELSE Null

\* What generator f computes from the text generateText returned.
ParseFor(f, text) ==
    CASE f = "generateShouldRespond" -> parseShouldRespondFromText(Trim(text))
      [] f = "generateTrueOrFalse" -> parseBooleanFromText(Trim(text))
      [] f \in { "generateTextArray", "generateObjectArray" } ->
            parseJsonArrayFromText(text)
      [] f = "generateMessageResponse" -> parseJSONObjectFromText(text)
      [] f = "generateTweetActions" -> parseActionResponseFromText(Trim(text))
      [] OTHER -> Str(text)

\* Mutant: the generator returns whatever the parser gave.
Accepted_AnyParse(f, x) == TRUE

\* The generator's test of the parsed value: `if (parsedResponse)`, and
\* `parsedResponse !== null` in generateTrueOrFalse.
Accepted(f, x) ==
    IF f = "generateTrueOrFalse" THEN x # Null ELSE Truthy(x)

----------------------------------------------------------------------------
VARIABLES
    fn,                  \* the function invoked ("none" before the call)
    context,             \* its context argument
    verifiableInference, \* the verifiableInference flag of its text calls
    hasAdapter,          \* runtime.verifiableInferenceAdapter is set
    failLimit,           \* environment: failed replies the provider may give
    fails,               \* failed attempts so far
    thrown,              \* failed attempts that ended in the catch block
    caught,              \* the error generateText's catch block caught
    pc,                  \* where the invocation is suspended
    retryDelay,          \* the local retryDelay / retryLength
    timer,               \* delay of the pending setTimeout (0: none)
    proof,               \* text of the adapter's result awaiting verifyProof
    isValid,             \* what the awaited verifyProof resolved with
    calls,               \* generateText calls made
    providerRequests,    \* aiGenerateText requests issued
    adapterCalls,        \* verifiableInferenceAdapter.generateText calls
    verifyCalls,         \* verifiableInferenceAdapter.verifyProof calls
    waits,               \* the delays of the elapsed waits, in order
    response,            \* the text the awaited generateText returned
    result               \* the value returned or the error raised

textVars ==
    << fn, context, verifiableInference, hasAdapter, failLimit, fails, thrown,
       caught, pc, retryDelay, timer, proof, isValid, calls, providerRequests,
       adapterCalls, verifyCalls, waits, response, result >>

\* generateImage (one invocation).
VARIABLES
    imageModelProvider,  \* runtime.imageModelProvider
    modelProvider,       \* runtime.modelProvider
    token,               \* runtime.token
    settings,            \* what runtime.getSetting gives for each key
    width,               \* data.width
    height,              \* data.height
    apiKey,              \* the const apiKey
    imgPc,               \* where the invocation is suspended
    sent,                \* the request issued to the image provider
    images,              \* the image list of the provider's reply
    slots,               \* the results of the per-image promises, by index
    fetchOrder,          \* the indices of the fulfilled promises, in order
    imgResult            \* the object returned or the error raised

imageVars ==
    << imageModelProvider, modelProvider, token, settings, width, height,
       apiKey, imgPc, sent, images, slots, fetchOrder, imgResult >>

\* generateCaption (one invocation).
VARIABLES
    hasDescriptionService, \* runtime.getService(IMAGE_DESCRIPTION) gives one
    imageUrl,              \* data.imageUrl
    capPc,                 \* where the invocation is suspended
    describeCalls,         \* describeImage calls made
    described,             \* the URL describeImage was called with
    resp,                  \* what describeImage resolved with
    capResult              \* the caption returned or the error raised

captionVars ==
    << hasDescriptionService, imageUrl, capPc, describeCalls, described, resp,
       capResult >>

\* trimTokens (one invocation).  A text is the sequence of its characters.
VARIABLES
    trimContext,         \* the context argument
    maxTokens,           \* the maxTokens argument
    tokenizerModel,      \* runtime.getSetting("TOKENIZER_MODEL")
    tokenizerType,       \* runtime.getSetting("TOKENIZER_TYPE")
    trimPc,              \* where the invocation is suspended
    tokenizer,           \* the tokenizer that encoded the context
    trimResult           \* the text returned or the error raised

trimVars ==
    << trimContext, maxTokens, tokenizerModel, tokenizerType, trimPc,
       tokenizer, trimResult >>

\* getWalletKey of plugin-solana/src/keypairUtils.ts (one invocation).
VARIABLES
    requirePrivateKey,   \* the requirePrivateKey argument (Unset: omitted)
    walletSettings,      \* what runtime.getSetting gives for each key
    walletPc,            \* "idle", "returned" or "raised"
    decodings,           \* the decodings of the key string tried, in order
    walletResult         \* the KeypairResult returned or the error raised

walletVars ==
    << requirePrivateKey, walletSettings, walletPc, decodings, walletResult >>

\* The variables the text functions leave alone.
nonTextVars == << imageVars, captionVars, trimVars, walletVars >>

\* The variables generateImage leaves alone.
nonImageVars == << textVars, captionVars, trimVars, walletVars >>

\* The variables generateCaption leaves alone.
nonCaptionVars == << textVars, imageVars, trimVars, walletVars >>

\* The variables trimTokens leaves alone.
nonTrimVars == << textVars, imageVars, captionVars, walletVars >>

\* The variables getWalletKey leaves alone.
nonWalletVars == << textVars, imageVars, captionVars, trimVars >>

vars == << textVars, imageVars, captionVars, trimVars, walletVars >>

Init ==
    /\ fn = [i \in Invocations |-> "none"]
    /\ context = [i \in Invocations |-> ""]
    /\ verifiableInference = [i \in Invocations |-> FALSE]
    /\ hasAdapter = [i \in Invocations |-> FALSE]
    /\ failLimit = [i \in Invocations |-> 0]
    /\ fails = [i \in Invocations |-> 0]
    /\ thrown = [i \in Invocations |-> 0]
    /\ caught = [i \in Invocations |-> ""]
    /\ pc = [i \in Invocations |-> "idle"]
    /\ retryDelay = [i \in Invocations |-> 0]
    /\ timer = [i \in Invocations |-> 0]
    /\ proof = [i \in Invocations |-> NoText]
    /\ isValid = [i \in Invocations |-> NoVerdict]
    /\ calls = [i \in Invocations |-> 0]
    /\ providerRequests = [i \in Invocations |-> 0]
    /\ adapterCalls = [i \in Invocations |-> 0]
    /\ verifyCalls = [i \in Invocations |-> 0]
    /\ waits = [i \in Invocations |-> << >>]
    /\ response = [i \in Invocations |-> NoText]
    /\ result = [i \in Invocations |-> Null]
    /\ imageModelProvider = "OPENAI"
    /\ modelProvider = "OPENAI"
    /\ token = Unset
    /\ settings = [k \in SettingKeys |-> Unset]
    /\ width = 1024
    /\ height = 1024
    /\ apiKey = Unset
    /\ imgPc = "idle"
    /\ sent = NoRequest
    /\ images = << >>
    /\ slots = << >>
    /\ fetchOrder = << >>
    /\ imgResult = NoResult
    /\ hasDescriptionService = FALSE
    /\ imageUrl = ""
    /\ capPc = "idle"
    /\ describeCalls = 0
    /\ described = Unset
    /\ resp = NoCaption
    /\ capResult = NoCaption
    /\ trimContext = << >>
    /\ maxTokens = 1
    /\ tokenizerModel = Unset
    /\ tokenizerType = Unset
    /\ trimPc = "idle"
    /\ tokenizer = "none"
    /\ trimResult = NoTrim
    /\ requirePrivateKey = Unset
    /\ walletSettings = [k \in WalletKeys |-> Unset]
    /\ walletPc = "idle"
    /\ decodings = << >>
    /\ walletResult = NoKey

----------------------------------------------------------------------------
\* The environment.  A reply is good for invocation i when generateText
\* resolves with a text that i's parser accepts (any text, when i is a
\* direct call of generateText).  The provider gives i at most failLimit[i]
\* replies that are not good, and then only good ones; with failLimit[i] =
\* Never it gives no good reply at all.

GoodText(i, text) ==
    fn[i] = "generateText" \/ Accepted(fn[i], ParseFor(fn[i], text))

MayFail(i) == fails[i] < failLimit[i]

MaySucceed(i) == failLimit[i] # Never

Allowed(i, good) == IF good THEN MaySucceed(i) ELSE MayFail(i)

----------------------------------------------------------------------------
\* Mutant: the adapter is tried before the context is looked at.
GenerateTextRoute_AdapterFirst(ctx, flag, adapter) ==
    IF flag /\ adapter THEN "adapter"
    ELSE IF ctx = "" THEN "short"
    ELSE "provider"

\* Mutant: the flag alone sends the call to the adapter.
GenerateTextRoute_FlagOnly(ctx, flag, adapter) ==
    IF ctx = "" THEN "short"
    ELSE IF flag THEN "adapter"
    ELSE "provider"

\* Mutant: generateText does not look at the context.
GenerateTextRoute_NoShortCircuit(ctx, flag, adapter) ==
    IF flag /\ adapter THEN "adapter" ELSE "provider"

\* generateText, first part (lines 356-396 and 398-455): which awaited call
\* the function reaches first.
\*   "short"    : `if (!context) return "";`
\*   "adapter"  : runtime.verifiableInferenceAdapter.generateText(...)
\*   "provider" : aiGenerateText(...)
GenerateTextRoute(ctx, flag, adapter) ==
    IF ctx = "" THEN "short"
    ELSE IF flag /\ adapter THEN "adapter"
    ELSE "provider"

\* Invocation i enters generateText: the counters and the place it suspends.
EnterGenerateText(i) ==
    LET route == GenerateTextRoute(context'[i], verifiableInference'[i],
                                   hasAdapter'[i])
    IN  /\ calls' = [calls EXCEPT ![i] = @ + 1]
        /\ adapterCalls' =
              [adapterCalls EXCEPT ![i] = IF route = "adapter" THEN @ + 1 ELSE @]
        /\ providerRequests' =
              [providerRequests EXCEPT
                  ![i] = IF route = "provider" THEN @ + 1 ELSE @]
        /\ isValid' = [isValid EXCEPT ![i] = NoVerdict]
        /\ pc' = [pc EXCEPT ![i] = "text_" \o route]

\* Mutant: linear backoff.
NextDelay_Linear(d) == d + InitialDelay

\* `retryDelay *= 2;`
NextDelay(d) == d * 2

\* Mutant: the array generators do not look at the context.
Prologue_NoEmptyCheck(f, ctx) ==
    CASE f = "generateTrueOrFalse" ->
            [to |-> "raised", value |-> ReferenceErrorModelSettings,
             delay |-> InitialDelay]
      [] f \in { "generateObject", "generateObjectDeprecated" } ->
            IF ctx = ""
            THEN [to |-> "raised", value |-> EmptyContextError, delay |-> 0]
            ELSE [to |-> "returned", value |-> Undefined, delay |-> 0]
      [] f = "generateText" -> [to |-> "text", value |-> Null, delay |-> 0]
      [] OTHER -> [to |-> "loop", value |-> Null, delay |-> InitialDelay]

\* The generator's own code before its loop, for function f called with
\* context ctx: "loop" when it reaches `while (true)`, otherwise the value
\* it returns or the error it raises at once.
\*   generateTrueOrFalse  : `modelSettings` is not declared in its scope
\*   generateTextArray,
\*   generateObjectArray  : `if (!context) return [];`
\*   generateObject       : throws on an empty context; its body is a stub
\*   generateObjectDeprecated : `return generateObject(...)`
\* delay: the value of the local retryDelay (0: not declared yet).
Prologue(f, ctx) ==
    CASE f = "generateTrueOrFalse" ->
            [to |-> "raised", value |-> ReferenceErrorModelSettings,
             delay |-> InitialDelay]
      [] f \in { "generateTextArray", "generateObjectArray" } /\ ctx = "" ->
            [to |-> "returned", value |-> Arr(""), delay |-> 0]
      [] f \in { "generateObject", "generateObjectDeprecated" } ->
            IF ctx = ""
            THEN [to |-> "raised", value |-> EmptyContextError, delay |-> 0]
            ELSE [to |-> "returned", value |-> Undefined, delay |-> 0]
      [] f = "generateText" -> [to |-> "text", value |-> Null, delay |-> 0]
      [] OTHER -> [to |-> "loop", value |-> Null, delay |-> InitialDelay]

\* Mutant: every generator retries at once, without a wait.
AfterFailure_NoWait(f, inCatch, d) == [to |-> "loop", delay |-> d, timer |-> 0]

\* Mutant: the catch block lets the error out of the generator.
AfterFailure_Rethrow(f, inCatch, d) ==
    IF inCatch THEN [to |-> "raised", delay |-> d, timer |-> 0]
    ELSE IF f = "generateMessageResponse"
    THEN [to |-> "loop", delay |-> d, timer |-> 0]
    ELSE [to |-> "wait", delay |-> d, timer |-> d]

\* Mutant: generateMessageResponse follows the schedule of the other
\* generators.
AfterFailure_Uniform(f, inCatch, d) == [to |-> "wait", delay |-> d, timer |-> d]

\* What a retrying generator does with an attempt that did not give an
\* accepted value.  inCatch: the attempt ended in the catch block.
\*   generateMessageResponse: `continue` on a null parse; in the catch block
\*     `retryLength *= 2` and then the wait.
\*   the others: the wait of retryDelay after the try/catch in both cases
\*     (the delay doubles when the wait is over).
AfterFailure(f, inCatch, d) ==
    IF f = "generateMessageResponse"
    THEN IF inCatch
         THEN [to |-> "wait", delay |-> NextDelay(d), timer |-> NextDelay(d)]
         ELSE [to |-> "loop", delay |-> d, timer |-> 0]
    ELSE [to |-> "wait", delay |-> d, timer |-> d]

\* The delay after a wait has elapsed.
AfterWait(f, d) ==
    IF f = "generateMessageResponse" THEN d ELSE NextDelay(d)

----------------------------------------------------------------------------
\* A caller invokes function f.  The action is f's code up to its first
\* await; a direct call of generateText is inside generateText at once.
Invoke(i, f, ctx, flag, adapter, limit) ==
    LET p == Prologue(f, ctx) IN
    /\ pc[i] = "idle"
    /\ fn' = [fn EXCEPT ![i] = f]
    /\ context' = [context EXCEPT ![i] = ctx]
    /\ verifiableInference' = [verifiableInference EXCEPT ![i] = flag]
    /\ hasAdapter' = [hasAdapter EXCEPT ![i] = adapter]
    /\ failLimit' = [failLimit EXCEPT ![i] = limit]
    /\ retryDelay' = [retryDelay EXCEPT ![i] = p.delay]
    /\ IF p.to = "text"
       THEN IF GenerateTextRoute(ctx, flag, adapter) = "short"
            THEN /\ pc' = [pc EXCEPT ![i] = "returned"]
                 /\ result' = [result EXCEPT ![i] = Str("")]
                 /\ calls' = [calls EXCEPT ![i] = @ + 1]
                 /\ UNCHANGED << adapterCalls, providerRequests, isValid >>
            ELSE /\ EnterGenerateText(i)
                 /\ UNCHANGED result
       ELSE /\ pc' = [pc EXCEPT ![i] = p.to]
            /\ result' = [result EXCEPT ![i] = p.value]
            /\ UNCHANGED << calls, adapterCalls, providerRequests, isValid >>
    /\ UNCHANGED << fails, thrown, caught, timer, proof, verifyCalls, waits,
                    response >>
    /\ UNCHANGED nonTextVars

\* The top of `while (true)`: the generator calls generateText and awaits it.
StartCall(i) ==
    /\ pc[i] = "loop"
    /\ calls[i] < MaxCalls
    /\ UNCHANGED << fn, context, verifiableInference, hasAdapter, failLimit,
                    fails, thrown, caught, retryDelay, timer, proof,
                    verifyCalls, waits, response, result >>
    /\ UNCHANGED nonTextVars
    /\ EnterGenerateText(i)

\* Mutant: the catch block throws an error of its own.
Rethrow_Wrapped(e) == "Error in generateText"

\* generateText's catch blocks: `elizaLogger.error(...); throw error;`
Rethrow(e) == e

\* Mutant: the catch block logs the error and does not rethrow it.
Completion_Swallow(ok, text, e) ==
    IF ok THEN [to |-> "returned", value |-> Str(text)]
    ELSE [to |-> "returned", value |-> Undefined]

\* How a direct call of generateText completes: `return text;` /
\* `return result.text;`, or the `throw error;` of its catch block.
Completion(ok, text, e) ==
    IF ok THEN [to |-> "returned", value |-> Str(text)]
    ELSE [to |-> "raised", value |-> Err(Rethrow(e))]

\* The awaited generateText of invocation i resolves with `text` (ok), or an
\* error e is thrown inside its try block, which its catch block rethrows;
\* the awaiting code then runs to its next await.  `response` and the caught
\* error are block-scoped in the generators: they are gone when an attempt
\* ends without a return.
Settle(i, ok, text, e) ==
    LET f == fn[i]
        parsed == ParseFor(f, text)
    IN
    /\ thrown' = [thrown EXCEPT ![i] = IF ok THEN @ ELSE @ + 1]
    /\ proof' = [proof EXCEPT ![i] = NoText]
    /\ IF f = "generateText"
       THEN /\ pc' = [pc EXCEPT ![i] = Completion(ok, text, e).to]
            /\ result' = [result EXCEPT ![i] = Completion(ok, text, e).value]
            /\ response' = [response EXCEPT ![i] = IF ok THEN text ELSE @]
            /\ caught' = [caught EXCEPT ![i] = IF ok THEN @ ELSE e]
            /\ fails' = [fails EXCEPT ![i] = IF ok THEN @ ELSE @ + 1]
            /\ UNCHANGED << retryDelay, timer >>
       ELSE IF ok /\ Accepted(f, parsed)
       THEN /\ pc' = [pc EXCEPT ![i] = "returned"]
            /\ result' = [result EXCEPT ![i] = parsed]
            /\ response' = [response EXCEPT ![i] = text]
            /\ UNCHANGED << fails, retryDelay, timer, caught >>
       ELSE LET a == AfterFailure(f, ~ok, retryDelay[i]) IN
            /\ pc' = [pc EXCEPT ![i] = a.to]
            /\ retryDelay' = [retryDelay EXCEPT ![i] = a.delay]
            /\ timer' = [timer EXCEPT ![i] = a.timer]
            /\ fails' = [fails EXCEPT ![i] = @ + 1]
            /\ UNCHANGED << result, response, caught >>
    /\ UNCHANGED << fn, context, verifiableInference, hasAdapter, failLimit,
                    calls, providerRequests, adapterCalls, waits >>
    /\ UNCHANGED nonTextVars

\* generateText returned "" for an empty context; the generator resumes.
ShortCircuitResume(i) ==
    /\ pc[i] = "text_short"
    /\ Settle(i, TRUE, "", "")
    /\ UNCHANGED << verifyCalls, isValid >>

\* aiGenerateText settles: generateText returns its text, or logs the error
\* and rethrows it.
ProviderSettles(i) ==
    /\ pc[i] = "text_provider"
    /\ \/ \E text \in Texts :
            /\ Allowed(i, GoodText(i, text))
            /\ Settle(i, TRUE, text, "")
       \/ \E e \in Errors :
            /\ Allowed(i, FALSE)
            /\ Settle(i, FALSE, "", e)
    /\ UNCHANGED << verifyCalls, isValid >>

\* verifiableInferenceAdapter.generateText settles: with a result, whose
\* proof generateText goes on to verify, or with an error, which generateText
\* logs and rethrows.
AdapterSettles(i) ==
    /\ pc[i] = "text_adapter"
    /\ \/ \E text \in Texts :
            /\ GoodText(i, text) \/ MayFail(i)
            /\ proof' = [proof EXCEPT ![i] = text]
            /\ verifyCalls' = [verifyCalls EXCEPT ![i] = @ + 1]
            /\ pc' = [pc EXCEPT ![i] = "text_verify"]
            /\ UNCHANGED << fn, context, verifiableInference, hasAdapter,
                            failLimit, fails, thrown, caught, retryDelay,
                            timer, isValid, calls, providerRequests,
                            adapterCalls, waits, response, result >>
            /\ UNCHANGED nonTextVars
       \/ \E e \in Errors :
            /\ Allowed(i, FALSE)
            /\ Settle(i, FALSE, "", e)
            /\ UNCHANGED << verifyCalls, isValid >>

\* Mutant: the text is returned whatever verifyProof resolved with.
AfterVerify_IgnoreVerdict(valid, text) == [ok |-> TRUE, text |-> text, e |-> ""]

\* generateText after `isValid = await ...verifyProof(result)`:
\* `if (!isValid) throw new Error("Failed to verify inference proof");`
\* `return result.text;`
AfterVerify(valid, text) ==
    IF valid THEN [ok |-> TRUE, text |-> text, e |-> ""]
    ELSE [ok |-> FALSE, text |-> "", e |-> ProofError.v]

\* verifiableInferenceAdapter.verifyProof settles: it resolves with true or
\* false, or rejects with an error (which generateText logs and rethrows).
VerifySettles(i) ==
    /\ pc[i] = "text_verify"
    /\ \/ \E valid \in BOOLEAN :
            LET a == AfterVerify(valid, proof[i]) IN
            /\ Allowed(i, a.ok /\ GoodText(i, a.text))
            /\ isValid' = [isValid EXCEPT ![i] = Verdict(valid)]
            /\ Settle(i, a.ok, a.text, a.e)
       \/ \E e \in Errors :
            /\ Allowed(i, FALSE)
            /\ Settle(i, FALSE, "", e)
            /\ UNCHANGED isValid
    /\ UNCHANGED verifyCalls

\* Mutant: retryDelay is one variable of the module, shared by all
\* invocations.
TimerFires_SharedDelay(i) ==
    /\ pc[i] = "wait"
    /\ waits' = [waits EXCEPT ![i] = Append(@, timer[i])]
    /\ timer' = [timer EXCEPT ![i] = 0]
    /\ retryDelay' = [j \in Invocations |-> NextDelay(retryDelay[j])]
    /\ pc' = [pc EXCEPT ![i] = "loop"]
    /\ UNCHANGED << fn, context, verifiableInference, hasAdapter, failLimit,
                    fails, thrown, caught, proof, isValid, calls,
                    providerRequests, adapterCalls, verifyCalls, response,
                    result >>
    /\ UNCHANGED nonTextVars

\* The setTimeout of the backoff wait fires; the generator goes round the loop.
TimerFires(i) ==
    /\ pc[i] = "wait"
    /\ waits' = [waits EXCEPT ![i] = Append(@, timer[i])]
    /\ timer' = [timer EXCEPT ![i] = 0]
    /\ retryDelay' = [retryDelay EXCEPT ![i] = AfterWait(fn[i], @)]
    /\ pc' = [pc EXCEPT ![i] = "loop"]
    /\ UNCHANGED << fn, context, verifiableInference, hasAdapter, failLimit,
                    fails, thrown, caught, proof, isValid, calls,
                    providerRequests, adapterCalls, verifyCalls, response,
                    result >>
    /\ UNCHANGED nonTextVars

\* Failure limits the environment is started with.
FailLimits == (0 .. MaxCalls - 1) \cup { Never }

\* One caller.
Next ==
    \/ \E f \in Functions, ctx \in Contexts, flag \in BOOLEAN,
          adapter \in BOOLEAN, limit \in FailLimits :
            Invoke("a", f, ctx, flag, adapter, limit)
    \/ StartCall("a")
    \/ ShortCircuitResume("a")
    \/ ProviderSettles("a")
    \/ AdapterSettles("a")
    \/ VerifySettles("a")
    \/ TimerFires("a")

Spec == Init /\ [][Next]_vars

\* Every awaited call and every timer of the caller eventually completes,
\* and a generator at the top of its loop goes on.
LiveSpec ==
    /\ Spec
    /\ WF_vars(StartCall("a"))
    /\ WF_vars(ShortCircuitResume("a"))
    /\ WF_vars(ProviderSettles("a"))
    /\ WF_vars(AdapterSettles("a"))
    /\ WF_vars(VerifySettles("a"))
    /\ WF_vars(TimerFires("a"))

\* Failure limit of the concurrent callers.
ConcLimits == { MaxCalls - 1 }

\* Two concurrent callers of retrying generators on the provider path, each
\* suspended at its own awaits.
ConcNext ==
    \E i \in Invocations :
        \/ \E f \in RetryingGenerators, limit \in ConcLimits :
                Invoke(i, f, "prompt", FALSE, FALSE, limit)
        \/ StartCall(i)
        \/ ProviderSettles(i)
        \/ TimerFires(i)

ConcSpec == Init /\ [][ConcNext]_vars

----------------------------------------------------------------------------
\* generateImage (lines 807-1194).

\* Bound of the model: a provider's reply lists at most MaxImages images.
MaxImages == 2

\* Values of ModelProviderName: the providers generateImage has a branch
\* for, OPENAI, and one it has no branch for.
ImageProviders ==
    { "HEURIST", "TOGETHER", "LLAMACLOUD", "FAL", "VENICE", "NINETEEN_AI",
      "LIVEPEER", "OPENAI", "ANTHROPIC" }

\* A gateway URL with the http protocol, one with another protocol, and a
\* string `new URL` does not parse.
GatewayUrls == { "http://gateway/", "ftp://gateway/", "gateway" }

\* `new URL(apiKey).protocol`, or "invalid" when `new URL` throws.
UrlProtocol(u) ==
    CASE u = "http://gateway/" -> "http:"
      [] u = "ftp://gateway/" -> "ftp:"
      [] OTHER -> "invalid"

\* The `switch (runtime.imageModelProvider)` of the credential lookup: the
\* setting read for the provider, Unset in the default case.
SpecificKey(provider) ==
    CASE provider = "HEURIST" -> "HEURIST_API_KEY"
      [] provider = "TOGETHER" -> "TOGETHER_API_KEY"
      [] provider = "FAL" -> "FAL_API_KEY"
      [] provider = "OPENAI" -> "OPENAI_API_KEY"
      [] provider = "VENICE" -> "VENICE_API_KEY"
      [] provider = "LIVEPEER" -> "LIVEPEER_GATEWAY_URL"
      [] OTHER -> Unset

\* The keys of the `??` chain of the default case, in its order.
FallbackChain ==
    << "HEURIST_API_KEY", "NINETEEN_AI_API_KEY", "TOGETHER_API_KEY",
       "FAL_API_KEY", "OPENAI_API_KEY", "VENICE_API_KEY",
       "LIVEPEER_GATEWAY_URL" >>

\* a ?? b ?? ... over the settings s: the first value that is not undefined.
RECURSIVE FirstSet(_, _)
FirstSet(s, chain) ==
    IF chain = << >> THEN Unset
    ELSE IF s[Head(chain)] # Unset THEN s[Head(chain)]
    ELSE FirstSet(s, Tail(chain))

\* `const apiKey = ...` (lines 841-871).
ResolveApiKey(imageProvider, provider, tok, s) ==
    IF imageProvider = provider THEN tok
    ELSE IF SpecificKey(imageProvider) # Unset
    THEN s[SpecificKey(imageProvider)]
    ELSE FirstSet(s, FallbackChain)

\* The if-chain of the try block: the branch taken for a provider.
Branch(provider) ==
    CASE provider = "HEURIST" -> "heurist"
      [] provider \in { "TOGETHER", "LLAMACLOUD" } -> "together"
      [] provider = "FAL" -> "fal"
      [] provider = "VENICE" -> "venice"
      [] provider = "NINETEEN_AI" -> "nineteen"
      [] provider = "LIVEPEER" -> "livepeer"
      [] OTHER -> "default"

\* The sizes the default branch lets through.
AllowedSizes == { "1024x1024", "1792x1024", "1024x1792" }

\* Mutant: the requested size is sent as it is.
TargetSize_AsRequested(w, h) == ToString(w) \o "x" \o ToString(h)

\* `let targetSize = `${data.width}x${data.height}`` and its coercion
\* (lines 1163-1170).
TargetSize(w, h) ==
    LET targetSize == ToString(w) \o "x" \o ToString(h) IN
    IF targetSize \notin AllowedSizes THEN "1024x1024" ELSE targetSize

\* Buffer.from(body).toString("base64") on the bodies of the model.
Base64(body) ==
    CASE body = "" -> ""
      [] body = "A" -> "QQ=="
      [] body = "B" -> "Qg=="
      [] OTHER -> "RQ=="

\* A value interpolated into a template string.
Interpolate(v) == IF v = Unset THEN "undefined" ELSE v

\* An entry of `data`: the string `data:${mime};base64,${payload}`, or a
\* value of the provider's reply as it came.
DataUrl(mime, payload) ==
    [kind |-> "dataurl", mime |-> Interpolate(mime),
     payload |-> Interpolate(payload)]

RawValue(v) == [kind |-> "raw", mime |-> "", payload |-> v]

\* The promise of an image has not settled.
Pending == [kind |-> "pending", mime |-> "", payload |-> ""]

\* `return { success: false, error: ... }`
Failure(e) == [success |-> "false", data |-> << >>, error |-> e]

\* `return { success: true, data: ... }`
Success(d) == [success |-> "true", data |-> d, error |-> Unset]

\* An error that leaves generateImage: the promise it returned rejects.
Raised(e) == [success |-> Unset, data |-> << >>, error |-> e]

\* The images a provider's reply can list: two with an absolute URL, one
\* with a relative URL and without the other fields, and one without a URL
\* and with an empty base64 string.
Items ==
    { [url |-> "http://h/1", content_type |-> "image/png", b64 |-> "QQ=="],
      [url |-> "http://h/2", content_type |-> "image/webp", b64 |-> "Qg=="],
      [url |-> "/3", content_type |-> Unset, b64 |-> Unset],
      [url |-> Unset, content_type |-> "image/png", b64 |-> ""] }

\* The image lists of a reply.
ImageLists == UNION { [1 .. n -> Items] : n \in 0 .. MaxImages }

\* The body the server of an image URL responds with when it is fetched
\* (the image at /3 of the gateway is empty).
Content(url) ==
    CASE url = "http://h/1" -> "A"
      [] url = "http://h/2" -> "B"
      [] OTHER -> ""

\* What the call `getImageModelSettings(runtime.imageModelProvider)` of
\* line 831 does.  generation.ts neither declares nor imports the name, so
\* whether it resolves depends on the build: in a bundle that puts the
\* function into the same scope the call gives the settings of the provider
\* ("found") or nothing ("none"); where each module keeps its own scope the
\* call raises a ReferenceError ("unresolved").
Lookups == { "unresolved", "none", "found" }

ReferenceErrorImageSettings ==
    "ReferenceError: getImageModelSettings is not defined"

\* The error a branch throws before its first await, Unset when it throws
\* none: the checks of the Livepeer gateway URL (lines 1102-1109) and of
\* OPENAI_API_KEY in the default branch (lines 1171-1174).
Preflight(branch, key, s) ==
    CASE branch = "livepeer" ->
            IF key = Unset THEN "Livepeer Gateway is not defined"
            ELSE IF UrlProtocol(key) = "invalid" THEN "TypeError: Invalid URL"
            ELSE IF UrlProtocol(key) # "http:"
            THEN "Invalid Livepeer Gateway URL protocol"
            ELSE Unset
      [] branch = "default" ->
            IF s["OPENAI_API_KEY"] = Unset
            THEN "OPENAI_API_KEY is not set"
            ELSE Unset
      [] OTHER -> Unset

\* The request a branch issues: the default branch sends targetSize and the
\* OPENAI_API_KEY setting, the others send apiKey.
Request(branch, key, s, w, h) ==
    IF branch = "default"
    THEN [branch |-> branch, size |-> TargetSize(w, h),
          key |-> s["OPENAI_API_KEY"]]
    ELSE [branch |-> branch, size |-> Unset, key |-> key]

\* generateImage is called: its code up to the first await.
InvokeImage(provider, textProvider, tok, s, w, h, lookup) ==
    LET key == ResolveApiKey(provider, textProvider, tok, s)
        branch == Branch(provider)
        early == Preflight(branch, key, s)
    IN
    /\ imgPc = "idle"
    /\ imageModelProvider' = provider
    /\ modelProvider' = textProvider
    /\ token' = tok
    /\ settings' = s
    /\ width' = w
    /\ height' = h
    /\ UNCHANGED << images, slots, fetchOrder >>
    /\ CASE lookup = "unresolved" ->
              /\ imgPc' = "raised"
              /\ imgResult' = Raised(ReferenceErrorImageSettings)
              /\ UNCHANGED << apiKey, sent >>
         [] lookup = "none" ->
              /\ imgPc' = "returned"
              /\ imgResult' = Failure("No model settings available")
              /\ UNCHANGED << apiKey, sent >>
         [] OTHER ->
              /\ apiKey' = key
              /\ IF early # Unset
                 THEN /\ imgPc' = "returned"
                      /\ imgResult' = Failure(early)
                      /\ UNCHANGED sent
                 ELSE /\ imgPc' = "request"
                      /\ sent' = Request(branch, key, s, w, h)
                      /\ UNCHANGED imgResult
    /\ UNCHANGED nonImageVars

\* The branches whose request is a fetch followed by response.json().
HttpBranches == { "heurist", "venice", "nineteen", "livepeer" }

\* The branches that fetch every image of the reply.
FetchingBranches == { "together", "fal", "livepeer" }

\* Mutant: an empty image list is a success with no data on every branch.
Received_EmptySuccess(branch, list) ==
    LET n == Len(list)
        png == [k \in 1 .. n |-> DataUrl("image/png", list[k].b64)]
    IN
    IF n = 0 THEN [to |-> "returned", value |-> Success(<< >>)]
    ELSE IF branch \in FetchingBranches
    THEN IF \E k \in 1 .. n : list[k].url = Unset
         THEN [to |-> "returned", value |-> Failure("Missing URL")]
         ELSE [to |-> "fetching", value |-> NoResult]
    ELSE [to |-> "returned", value |-> Success(png)]

\* What a branch does with the image list of the provider's reply: the
\* result it returns at once, or "fetching" when it starts one fetch per
\* image and awaits Promise.all.
Received(branch, list) ==
    LET n == Len(list)
        noUrl == \E k \in 1 .. n : list[k].url = Unset
        png == [k \in 1 .. n |-> DataUrl("image/png", list[k].b64)]
        done(r) == [to |-> "returned", value |-> r]
        fetching == [to |-> "fetching", value |-> NoResult]
    IN
    CASE branch = "together" ->
            IF noUrl THEN done(Failure("Missing URL in Together AI response"))
            ELSE IF n = 0
            THEN done(Failure("No images generated by Together AI"))
            ELSE fetching
      [] branch = "fal" -> IF n = 0 THEN done(Success(<< >>)) ELSE fetching
      [] branch = "livepeer" ->
            IF n = 0 THEN done(Failure("No images generated"))
            ELSE IF noUrl THEN done(Failure("TypeError: image.url is undefined"))
            ELSE fetching
      [] branch \in { "venice", "nineteen" } ->
            IF \E k \in 1 .. n : list[k].b64 \in { Unset, "" }
            THEN done(Failure("Empty base64 string in response"))
            ELSE done(Success(png))
      [] OTHER -> done(Success(png))

\* The code after the reply with image list `list` has arrived.
Receive(list) ==
    LET r == Received(sent.branch, list) IN
    /\ imgPc' = r.to
    /\ imgResult' = r.value
    /\ images' = IF r.to = "fetching" THEN list ELSE images
    /\ slots' = IF r.to = "fetching"
                THEN [k \in 1 .. Len(list) |-> Pending] ELSE slots
    /\ UNCHANGED fetchOrder

\* The try block ends with an error: the catch block returns it.
Fail(e) ==
    /\ imgPc' = "returned"
    /\ imgResult' = Failure(e)
    /\ UNCHANGED << images, slots, fetchOrder >>

\* The awaited request (fetch, together.images.create, fal.subscribe,
\* openai.images.generate) settles.
RequestSettles ==
    /\ imgPc = "request"
    /\ \/ \E e \in Errors : Fail(e)
       \/ /\ sent.branch \in HttpBranches
          /\ \E ok \in BOOLEAN :
                IF sent.branch = "heurist" /\ ~ok
                THEN Fail("Heurist image generation failed")
                ELSE /\ imgPc' = "json"
                     /\ UNCHANGED << images, slots, fetchOrder, imgResult >>
       \/ /\ sent.branch \notin HttpBranches
          /\ \/ Fail("Invalid response format")
             \/ \E list \in ImageLists : Receive(list)
    /\ UNCHANGED << imageModelProvider, modelProvider, token, settings, width,
                    height, apiKey, sent >>
    /\ UNCHANGED nonImageVars

\* What Heurist's response body can parse to: a URL, or null.
HeuristReplies == { "http://h/1", Unset }

\* The awaited response.json() settles.
JsonSettles ==
    /\ imgPc = "json"
    /\ \/ \E e \in Errors : Fail(e)
       \/ /\ sent.branch = "heurist"
          /\ \E v \in HeuristReplies :
                /\ imgPc' = "returned"
                /\ imgResult' = Success(<< RawValue(v) >>)
                /\ UNCHANGED << images, slots, fetchOrder >>
       \/ /\ sent.branch # "heurist"
          /\ \/ Fail(IF sent.branch = "livepeer" THEN "No images generated"
                     ELSE "Invalid response format")
             \/ \E list \in ImageLists : Receive(list)
    /\ UNCHANGED << imageModelProvider, modelProvider, token, settings, width,
                    height, apiKey, sent >>
    /\ UNCHANGED nonImageVars

\* `image.url.includes("http")` on the URLs of the model.
IncludesHttp(url) == url \in { "http://h/1", "http://h/2" }

\* The URL the callback of a fetching branch passes to fetch for an image
\* with URL url, Unset when fetch cannot parse it: Together and Fal fetch
\* image.url as it is, Livepeer fetches `${apiKey}${image.url}` when the URL
\* does not include "http".
FetchTarget(branch, key, url) ==
    IF url = Unset THEN Unset
    ELSE IF IncludesHttp(url) THEN url
    ELSE IF branch = "livepeer" THEN key \o url
    ELSE Unset

\* The MIME type a fetching branch writes into the data URL of an image.
MimeOf(branch, item) ==
    IF branch = "fal" THEN item.content_type ELSE "image/jpeg"

\* Mutant: the results are collected in the order the fetches complete.
Place_CompletionOrder(s, k, v) ==
    LET first == CHOOSE j \in 1 .. Len(s) :
                    /\ s[j] = Pending
                    /\ \A m \in 1 .. j - 1 : s[m] # Pending
    IN [s EXCEPT ![first] = v]

\* Promise.all: the value of the k-th promise is the k-th entry of the
\* array it resolves with.
Place(s, k, v) == [s EXCEPT ![k] = v]

\* The promise of the k-th image settles: the chain fetch, blob,
\* arrayBuffer of its callback (the values between are locals of the
\* callback) ends with a data URL, or with an error, which rejects
\* Promise.all at once.  Together and Livepeer throw on a response that is
\* not ok; Fal encodes the body of any response.
FetchSettles(k) ==
    LET branch == sent.branch
        item == images[k]
        target == FetchTarget(branch, apiKey, item.url)
    IN
    /\ imgPc = "fetching"
    /\ k \in 1 .. Len(slots)
    /\ slots[k] = Pending
    /\ \/ \E e \in Errors : Fail(e)
       \/ /\ target # Unset
          /\ \E ok \in BOOLEAN :
                LET body == IF ok THEN Content(target) ELSE "E"
                    filled == Place(slots, k,
                                    DataUrl(MimeOf(branch, item), Base64(body)))
                IN
                IF ~ok /\ branch # "fal"
                THEN Fail("Failed to fetch image")
                ELSE /\ slots' = filled
                     /\ fetchOrder' = Append(fetchOrder, k)
                     /\ UNCHANGED images
                     /\ IF \A j \in 1 .. Len(filled) : filled[j] # Pending
                        THEN /\ imgPc' = "returned"
                             /\ imgResult' = Success(filled)
                        ELSE UNCHANGED << imgPc, imgResult >>
    /\ UNCHANGED << imageModelProvider, modelProvider, token, settings, width,
                    height, apiKey, sent >>
    /\ UNCHANGED nonImageVars

\* The runtimes and requests generateImage is called with.
TextProviders == { "OPENAI", "ANTHROPIC" }

Tokens == { Unset, "token" }

\* data.width and data.height.
Sizes == { << 999, 999 >>, << 1024, 1024 >>, << 1792, 1024 >>, << 1024, 1792 >> }

\* The sets of API keys that are set, and the gateway URLs.
KeySets ==
    { {}, { "OPENAI_API_KEY" }, { "NINETEEN_AI_API_KEY", "TOGETHER_API_KEY" },
      SettingKeys \ { "LIVEPEER_GATEWAY_URL" } }

Gateways == { Unset } \cup GatewayUrls

\* The settings of a runtime with the API keys `keys` and gateway URL g.
SettingsOf(keys, g) ==
    [k \in SettingKeys |->
        IF k = "LIVEPEER_GATEWAY_URL" THEN g
        ELSE IF k \in keys THEN "key:" \o k
        ELSE Unset]

ImageSettings == { SettingsOf(keys, g) : keys \in KeySets, g \in Gateways }

\* A caller invokes generateImage.
CallImage ==
    /\ imgPc = "idle"
    /\ \E provider \in ImageProviders, textProvider \in TextProviders,
          tok \in Tokens, s \in ImageSettings, size \in Sizes,
          lookup \in Lookups :
            InvokeImage(provider, textProvider, tok, s, size[1], size[2],
                        lookup)

ImageNext ==
    \/ CallImage
    \/ RequestSettles
    \/ JsonSettles
    \/ \E k \in 1 .. MaxImages : FetchSettles(k)

ImageSpec == Init /\ [][ImageNext]_vars

----------------------------------------------------------------------------
\* generateCaption (lines 1196-1219).

ImageUrls == { "http://h/1", "http://h/2", "" }

\* The titles and descriptions describeImage can resolve with (Unset: the
\* field is missing).
CaptionTexts == { "cat", " cat ", "a dog\n", "\tA  b ", "", Unset }

\* Mutant: the title and the description are returned as they came.
Caption_Untrimmed(r) ==
    IF r.title = Unset \/ r.description = Unset
    THEN [to |-> "raised",
          value |-> [NoCaption EXCEPT !.error = "TypeError: reading 'trim'"]]
    ELSE [to |-> "returned", value |-> r]

\* `return { title: resp.title.trim(), description: resp.description.trim() }`
\* (reading `trim` of a missing field raises a TypeError).
Caption(r) ==
    IF r.title = Unset \/ r.description = Unset
    THEN [to |-> "raised",
          value |-> [NoCaption EXCEPT !.error = "TypeError: reading 'trim'"]]
    ELSE [to |-> "returned",
          value |-> [title |-> Trim(r.title),
                     description |-> Trim(r.description), error |-> Unset]]

\* generateCaption is called: its code up to `await describeImage(imageUrl)`.
InvokeCaption(url, service) ==
    /\ capPc = "idle"
    /\ imageUrl' = url
    /\ hasDescriptionService' = service
    /\ IF ~service
       THEN /\ capPc' = "raised"
            /\ capResult' =
                  [NoCaption EXCEPT !.error = "Image description service not found"]
            /\ UNCHANGED << describeCalls, described >>
       ELSE /\ capPc' = "describe"
            /\ describeCalls' = describeCalls + 1
            /\ described' = url
            /\ UNCHANGED capResult
    /\ UNCHANGED resp
    /\ UNCHANGED nonCaptionVars

\* The awaited describeImage settles: it resolves with a title and a
\* description, or rejects with an error, which leaves generateCaption.
DescribeSettles ==
    /\ capPc = "describe"
    /\ \/ \E t \in CaptionTexts, d \in CaptionTexts :
            LET r == [title |-> t, description |-> d, error |-> Unset] IN
            /\ resp' = r
            /\ capPc' = Caption(r).to
            /\ capResult' = Caption(r).value
       \/ \E e \in Errors :
            /\ capPc' = "raised"
            /\ capResult' = [NoCaption EXCEPT !.error = e]
            /\ UNCHANGED resp
    /\ UNCHANGED << hasDescriptionService, imageUrl, describeCalls, described >>
    /\ UNCHANGED nonCaptionVars

CaptionNext ==
    \/ \E url \in ImageUrls, service \in BOOLEAN : InvokeCaption(url, service)
    \/ DescribeSettles

CaptionSpec == Init /\ [][CaptionNext]_vars

----------------------------------------------------------------------------
\* trimTokens, truncateAuto and truncateTiktoken (lines 77-163).

\* Bound of the model: a context has at most MaxChars characters.
MaxChars == 5

\* Bound of the model: the largest maxTokens argument.
MaxLimit == 3

Chars == { "a", "b" }

TrimContexts == UNION { [1 .. n -> Chars] : n \in 0 .. MaxChars }

TokenLimits == -1 .. MaxLimit

\* TOKENIZER_MODEL: unset, a model js-tiktoken knows, and the path of a
\* Hugging Face tokenizer (which js-tiktoken does not know).
TokenizerModels == { Unset, "gpt-4o", "meta-llama/Llama-2-7b-hf" }

\* The models encodingForModel has an encoding for.
TiktokenModels == { "gpt-4o" }

\* TOKENIZER_TYPE: unset, TokenizerType.Auto, TokenizerType.TikToken, and a
\* value that is no TokenizerType.
TokenizerTypes == { Unset, "auto", "tiktoken", "sentencepiece" }

\* Array.prototype.slice(-n) and String.prototype.slice(-n) for n > 0: the
\* last n elements.
SliceLast(q, n) ==
    IF n >= Len(q) THEN q ELSE SubSeq(q, Len(q) - n + 1, Len(q))

\* encoding.encode of js-tiktoken: byte-pair encoding, here with the one
\* merge of "a" and "b" into the token "ab"; no special tokens are added.
RECURSIVE Encode(_)
Encode(text) ==
    IF text = << >> THEN << >>
    ELSE IF Len(text) >= 2 /\ text[1] = "a" /\ text[2] = "b"
    THEN << "ab" >> \o Encode(SubSeq(text, 3, Len(text)))
    ELSE << text[1] >> \o Encode(Tail(text))

\* decode of both tokenizers: the concatenation of the texts of the tokens;
\* special tokens are not skipped (skip_special_tokens is false by default).
RECURSIVE Decode(_)
Decode(tokens) ==
    IF tokens = << >> THEN << >>
    ELSE (CASE Head(tokens) = "ab" -> << "a", "b" >>
            [] Head(tokens) = "BOS" -> << "<s>" >>
            [] OTHER -> << Head(tokens) >>) \o Decode(Tail(tokens))

\* The tokenizers AutoTokenizer.from_pretrained can load: one whose model
\* has no special tokens, and one whose post-processor puts a beginning-of-
\* sequence token before the tokens of the text (tokenizer.encode is called
\* with its default add_special_tokens = true).
AutoTokenizers == { "auto", "auto:bos" }

\* The tokens tokenizer `tok` encodes a text to.
EncodeWith(tok, text) ==
    IF tok = "auto:bos" THEN << "BOS" >> \o Encode(text) ELSE Encode(text)

\* The tokenizers that encoded a context.
Tokenizing(tok) == tok \notin { "none", "failed" }

\* The try block of truncateAuto and truncateTiktoken (lines 116-129 and
\* 142-157) once the tokenizer is there.
Truncate(tok, text, limit) ==
    LET tokens == EncodeWith(tok, text) IN
    IF Len(tokens) <= limit THEN text
    ELSE Decode(SliceLast(tokens, limit))

\* The catch block of both: `return context.slice(-maxTokens * 4);`
Fallback(text, limit) == SliceLast(text, limit * 4)

\* The truncation method trimTokens chooses (lines 88-108).
Route(model, type) ==
    IF model = Unset \/ type = Unset
    THEN [method |-> "tiktoken", model |-> "gpt-4o"]
    ELSE IF type = "auto" THEN [method |-> "auto", model |-> model]
    ELSE IF type = "tiktoken" THEN [method |-> "tiktoken", model |-> model]
    ELSE [method |-> "tiktoken", model |-> "gpt-4o"]

Returned(text) == [t |-> "string", text |-> text, error |-> Unset]

\* trimTokens is called: its code up to the await of truncateAuto, or to its
\* end.  encodingForModel throws for a model it does not know, inside the
\* try block of truncateTiktoken.
InvokeTrim(text, limit, model, type) ==
    LET r == Route(model, type) IN
    /\ trimPc = "idle"
    /\ trimContext' = text
    /\ maxTokens' = limit
    /\ tokenizerModel' = model
    /\ tokenizerType' = type
    /\ CASE text = << >> ->
              /\ trimPc' = "returned"
              /\ trimResult' = Returned(<< >>)
              /\ UNCHANGED tokenizer
         [] text # << >> /\ limit <= 0 ->
              /\ trimPc' = "raised"
              /\ trimResult' = [NoTrim EXCEPT !.t = "error",
                                              !.error = "maxTokens must be positive"]
              /\ UNCHANGED tokenizer
         [] text # << >> /\ limit > 0 /\ r.method = "auto" ->
              /\ trimPc' = "loading"
              /\ UNCHANGED << tokenizer, trimResult >>
         [] OTHER ->
              /\ trimPc' = "returned"
              /\ IF r.model \in TiktokenModels
                 THEN /\ tokenizer' = "tiktoken:" \o r.model
                      /\ trimResult' = Returned(Truncate("tiktoken", text, limit))
                 ELSE /\ tokenizer' = "failed"
                      /\ trimResult' = Returned(Fallback(text, limit))
    /\ UNCHANGED nonTrimVars

\* The awaited AutoTokenizer.from_pretrained(modelPath) settles: with the
\* tokenizer, or with an error, which the catch block of truncateAuto turns
\* into the character fallback.
TokenizerLoads ==
    /\ trimPc = "loading"
    /\ trimPc' = "returned"
    /\ \/ \E tok \in AutoTokenizers :
            /\ tokenizer' = tok
            /\ trimResult' = Returned(Truncate(tok, trimContext, maxTokens))
       \/ /\ tokenizer' = "failed"
          /\ trimResult' = Returned(Fallback(trimContext, maxTokens))
    /\ UNCHANGED << trimContext, maxTokens, tokenizerModel, tokenizerType >>
    /\ UNCHANGED nonTrimVars

\* A caller invokes trimTokens.
CallTrim ==
    /\ trimPc = "idle"
    /\ \E text \in TrimContexts, limit \in TokenLimits,
          model \in TokenizerModels, type \in TokenizerTypes :
            InvokeTrim(text, limit, model, type)

TrimNext == CallTrim \/ TokenizerLoads

TrimSpec == Init /\ [][TrimNext]_vars

----------------------------------------------------------------------------
\* getWalletKey (keypairUtils.ts, lines 16-57).

\* The requirePrivateKey argument: omitted, true, false.
RequireArgs == { Unset, "true", "false" }

\* `requirePrivateKey = true`: the default of the parameter.
Required(arg) == arg # "false"

\* Private key strings: the empty string; a secret key in base58; one in
\* padded base64; one in unpadded base64 whose characters are all of the
\* base58 alphabet; a base58 string that is no secret key; a string that is
\* neither.
PrivateKeyStrings ==
    { "", "58:secretA", "64:secretB==", "64:secretC", "58:short", "?!" }

\* Public key strings: the empty string, two keys, and a string that is none.
PublicKeyStrings == { "", "pubA", "pubB", "?!" }

\* The error a decoding or a constructor throws.
Throws == "<throws>"

\* bs58.decode: the bytes, or Throws for a string with a character that is
\* not of the base58 alphabet.
Bs58Decode(str) ==
    CASE str = "58:secretA" -> "secretA"
      [] str = "58:short" -> "short"
      [] str = "64:secretC" -> "other"
      [] OTHER -> Throws

\* Uint8Array.from(Buffer.from(str, "base64")): the bytes; Buffer.from skips
\* what is not base64 and never throws.
Base64Decode(str) ==
    CASE str = "64:secretB==" -> "secretB"
      [] str = "64:secretC" -> "secretC"
      [] OTHER -> "other"

\* Keypair.fromSecretKey: the keypair, or Throws for bytes that are no
\* secret key.
FromSecretKey(bytes) ==
    IF bytes \in { "secretA", "secretB", "secretC" }
    THEN "keypair:" \o bytes
    ELSE Throws

\* new PublicKey(str): the key, or Throws.
NewPublicKey(str) ==
    IF str \in { "pubA", "pubB" } THEN "publicKey:" \o str ELSE Throws

\* Mutant: `a || b`.
Coalesce_Falsy(a, b) == IF a \notin { Unset, "" } THEN a ELSE b

\* `a ?? b`
Coalesce(a, b) == IF a # Unset THEN a ELSE b

\* `bs58.decode` followed by `Keypair.fromSecretKey` (lines 31-32).
Base58Attempt(str) ==
    IF Bs58Decode(str) = Throws THEN Throws
    ELSE FromSecretKey(Bs58Decode(str))

\* `Buffer.from(..., "base64")` followed by `Keypair.fromSecretKey`
\* (lines 38-39).
Base64Attempt(str) == FromSecretKey(Base64Decode(str))

WalletError(m) == [to |-> "raised", tried |-> << >>,
                   value |-> [NoKey EXCEPT !.error = m]]

\* The nested try blocks of lines 29-44 for a non-empty key string.
KeypairFrom(str) ==
    IF Base58Attempt(str) # Throws
    THEN [to |-> "returned", tried |-> << "base58" >>,
          value |-> [NoKey EXCEPT !.keypair = Base58Attempt(str)]]
    ELSE IF Base64Attempt(str) # Throws
    THEN [to |-> "returned", tried |-> << "base58", "base64" >>,
          value |-> [NoKey EXCEPT !.keypair = Base64Attempt(str)]]
    ELSE [to |-> "raised", tried |-> << "base58", "base64" >>,
          value |-> [NoKey EXCEPT !.error = "Invalid private key format"]]

\* The private-key branch (lines 22-44).
PrivateBranch(s) ==
    LET privateKeyString ==
            Coalesce(s["SOLANA_PRIVATE_KEY"], s["WALLET_PRIVATE_KEY"])
    IN  IF privateKeyString \in { Unset, "" }
        THEN WalletError("Private key not found in settings")
        ELSE KeypairFrom(privateKeyString)

\* The public-key branch (lines 46-55).
PublicBranch(s) ==
    LET publicKeyString ==
            Coalesce(s["SOLANA_PUBLIC_KEY"], s["WALLET_PUBLIC_KEY"])
    IN  IF publicKeyString \in { Unset, "" }
        THEN WalletError("Solana Public key not found in settings")
        ELSE IF NewPublicKey(publicKeyString) = Throws
        THEN WalletError("Invalid public key input")
        ELSE [to |-> "returned", tried |-> << >>,
              value |-> [NoKey EXCEPT
                            !.publicKey = NewPublicKey(publicKeyString)]]

\* Mutant: the keypair is built whatever was asked for.
WalletKey_IgnoreRequest(arg, s) == PrivateBranch(s)

\* getWalletKey: `if (requirePrivateKey) { ... } else { ... }`
WalletKey(arg, s) ==
    IF Required(arg) THEN PrivateBranch(s) ELSE PublicBranch(s)

\* getWalletKey is called; it has no await and runs to its end.
InvokeWalletKey(arg, s) ==
    /\ walletPc = "idle"
    /\ requirePrivateKey' = arg
    /\ walletSettings' = s
    /\ walletPc' = WalletKey(arg, s).to
    /\ decodings' = WalletKey(arg, s).tried
    /\ walletResult' = WalletKey(arg, s).value
    /\ UNCHANGED nonWalletVars

\* The settings of the runtimes getWalletKey is called with.
WalletSettings ==
    { [k \in WalletKeys |->
          CASE k = "SOLANA_PRIVATE_KEY" -> a
            [] k = "WALLET_PRIVATE_KEY" -> b
            [] k = "SOLANA_PUBLIC_KEY" -> c
            [] OTHER -> d] :
        a \in { Unset } \cup PrivateKeyStrings,
        b \in { Unset } \cup PrivateKeyStrings,
        c \in { Unset } \cup PublicKeyStrings,
        d \in { Unset } \cup PublicKeyStrings }

\* A caller invokes getWalletKey.
CallWalletKey ==
    /\ walletPc = "idle"
    /\ \E arg \in RequireArgs, s \in WalletSettings :
            InvokeWalletKey(arg, s)

WalletNext == CallWalletKey

WalletSpec == Init /\ [][WalletNext]_vars

----------------------------------------------------------------------------
\* Auxiliary operators of the properties.

RECURSIVE Pow2(_)
Pow2(n) == IF n = 0 THEN 1 ELSE 2 * Pow2(n - 1)

RECURSIVE SumSeq(_)
SumSeq(q) == IF q = << >> THEN 0 ELSE Head(q) + SumSeq(Tail(q))

ArrayGenerators == { "generateTextArray", "generateObjectArray" }

ObjectFunctions == { "generateObject", "generateObjectDeprecated" }

Ended(i) == pc[i] \in { "returned", "raised" }

\* The value i returned is the accepted parse of the text its last
\* generateText call returned.
ReturnedFromParse(i) ==
    /\ calls[i] >= 1
    /\ response[i] # NoText
    /\ result[i] = ParseFor(fn[i], response[i])
    /\ Accepted(fn[i], result[i])
    /\ result[i] \notin { Null, Undefined }

\* The elapsed waits of i are 1000, 2000, 4000, ... : the k-th lasted
\* 1000 * 2^(k-1) ms.
DoublingWaits(i) ==
    \A k \in 1 .. Len(waits[i]) : waits[i][k] = 1000 * Pow2(k - 1)

----------------------------------------------------------------------------
\* C1 (as stated): every value a retrying generator returns is the non-null
\* result of its parser on a text that a generateText call of the same
\* invocation returned; never a default.
C1_ReturnsOnlyParsed ==
    \A i \in Invocations :
        (fn[i] \in RetryingGenerators /\ pc[i] = "returned")
            => ReturnedFromParse(i)

\* C1 (amended): every value a retrying generator returns is the non-null
\* result of its parser on the text of a generateText call of the same
\* invocation, except that generateTextArray and generateObjectArray called
\* with an empty context return the default [] without any generateText call.
C1_ReturnsParsedOrEmptyArray ==
    \A i \in Invocations :
        (fn[i] \in RetryingGenerators /\ pc[i] = "returned")
            => IF fn[i] \in ArrayGenerators /\ context[i] = ""
               THEN result[i] = Arr("") /\ calls[i] = 0
               ELSE ReturnedFromParse(i)

C1_Witness ==
    /\ fn["a"] = "generateTweetActions"
    /\ pc["a"] = "returned"
    /\ fails["a"] = 2
    /\ result["a"] = parseActionResponseFromText("[LIKE]")

C3_NeverRaises ==
    \A i \in Invocations : fn[i] \in RetryingGenerators => pc[i] # "raised"

\* C4: generateTrueOrFalse with a non-empty context ends only by returning
\* the boolean parsed from the model's reply: after one text call and no wait
\* when the first reply parses, after two text calls and one wait of 1000 ms
\* when only the second does.
C4_TrueOrFalseReturnsBoolean ==
    \A i \in Invocations :
        (fn[i] = "generateTrueOrFalse" /\ context[i] # "" /\ Ended(i))
            => /\ pc[i] = "returned"
               /\ result[i] \in { Bool("true"), Bool("false") }
               /\ result[i] = parseBooleanFromText(Trim(response[i]))
               /\ fails[i] = 0 => (calls[i] = 1 /\ waits[i] = << >>)
               /\ fails[i] = 1 => (calls[i] = 2 /\ waits[i] = << 1000 >>)

\* Where an invocation awaits a generateText call.
TextStates == { "text_short", "text_adapter", "text_verify", "text_provider" }

\* The number of times invocation i has doubled its delay according to its
\* own history: once per elapsed wait, and in generateMessageResponse once
\* per caught exception.
OwnDoublings(i) ==
    IF fn[i] = "generateMessageResponse" THEN thrown[i] ELSE Len(waits[i])

\* C5: within one invocation of a retrying generator the delay never
\* decreases and never returns to 1000 ms once it has grown; a step of one
\* invocation never changes the delay, the pending timer or the waits of
\* another; each invocation's delay is 1000 * 2^n for the number n of its own
\* failed attempts that doubled it.
C5_BackoffIsPerInvocation ==
    [][\A i \in Invocations :
          /\ pc[i] # "idle" =>
                /\ retryDelay'[i] >= retryDelay[i]
                /\ retryDelay[i] > InitialDelay => retryDelay'[i] > InitialDelay
          /\ \A j \in Invocations \ {i} :
                pc'[j] # pc[j] =>
                    /\ retryDelay'[i] = retryDelay[i]
                    /\ timer'[i] = timer[i]
                    /\ waits'[i] = waits[i]
          /\ (pc'[i] \in { "loop", "wait", "returned" } \cup TextStates
                /\ fn'[i] \in RetryingGenerators /\ retryDelay'[i] > 0) =>
                retryDelay'[i] = InitialDelay * Pow2(OwnDoublings(i)')
      ]_vars

\* Both invocations are past their first failures, with different delays.
C5_Witness ==
    /\ fn["a"] = "generateShouldRespond" /\ fn["b"] = "generateObjectArray"
    /\ retryDelay["a"] = 4000 /\ pc["a"] = "text_provider"
    /\ retryDelay["b"] = 2000 /\ pc["b"] = "wait"

CanParse(i) == context[i] # "" /\ failLimit[i] # Never

LoopStarted(i) == fn[i] \in RetryingGenerators /\ calls[i] >= 1

\* C7: a retrying generator whose loop has started ends only by returning an
\* accepted parse and never raises; when its text calls give a parseable
\* response from some attempt on it eventually returns; when none ever does
\* it never returns and goes on making text calls (as many as the model
\* allows).
C7_LoopEndsOnlyByParse ==
    /\ [](\A i \in Invocations :
            LoopStarted(i) =>
                /\ pc[i] # "raised"
                /\ pc[i] = "returned" => ReturnedFromParse(i)
                /\ ~CanParse(i) => pc[i] # "returned")
    /\ \A i \in Invocations :
            (LoopStarted(i) /\ CanParse(i)) ~> (pc[i] = "returned")
    /\ \A i \in Invocations :
            (LoopStarted(i) /\ ~CanParse(i)) ~> (calls[i] = MaxCalls)

C7_Witness ==
    /\ fn["a"] = "generateMessageResponse"
    /\ pc["a"] = "returned"
    /\ thrown["a"] = 1
    /\ fails["a"] = 3

\* C8: generateText called with an empty context returns "" and calls
\* neither the provider nor the verifiable-inference adapter, whatever the
\* verifiableInference flag and the runtime are.
C8_EmptyContextShortCircuits ==
    \A i \in Invocations :
        /\ (fn[i] = "generateText" /\ context[i] = "") =>
              /\ pc[i] = "returned"
              /\ result[i] = Str("")
        /\ (fn[i] # "none" /\ context[i] = "") =>
              /\ providerRequests[i] = 0
              /\ adapterCalls[i] = 0
              /\ verifyCalls[i] = 0
              /\ response[i] \in { NoText, "" }

C8_Witness ==
    /\ fn["a"] = "generateText"
    /\ context["a"] = ""
    /\ verifiableInference["a"] /\ hasAdapter["a"]
    /\ pc["a"] = "returned"
    /\ calls["a"] = 1

EmptyContextFunctions ==
    ArrayGenerators \cup ObjectFunctions \cup { "generateMessageResponse" }

\* C9 (as stated): each JSON-object and array variant called with an empty
\* context returns at once: no text call, no provider request, no wait, no
\* raised error.
C9_EmptyContextReturnsAtOnce ==
    \A i \in Invocations :
        (fn[i] \in EmptyContextFunctions /\ context[i] = "") =>
            /\ pc[i] = "returned"
            /\ calls[i] = 0
            /\ providerRequests[i] = 0
            /\ waits[i] = << >>

\* C9 (amended): called with an empty context, generateTextArray and
\* generateObjectArray return [] at once (no text call, no provider request,
\* no wait, no raised error); generateObject and generateObjectDeprecated
\* raise "generateObject context is empty" without a text call;
\* generateMessageResponse neither returns nor raises: it makes text calls,
\* none of which reaches the provider, and never waits.
C9_EmptyContextPerFunction ==
    \A i \in Invocations :
        (fn[i] \in EmptyContextFunctions /\ context[i] = "") =>
            /\ providerRequests[i] = 0
            /\ adapterCalls[i] = 0
            /\ waits[i] = << >> /\ timer[i] = 0
            /\ fn[i] \in ArrayGenerators =>
                  pc[i] = "returned" /\ result[i] = Arr("") /\ calls[i] = 0
            /\ fn[i] \in ObjectFunctions =>
                  pc[i] = "raised" /\ result[i] = EmptyContextError
                      /\ calls[i] = 0
            /\ fn[i] = "generateMessageResponse" =>
                  pc[i] \in { "loop", "text_short" } /\ fails[i] >= calls[i] - 1

C9_Witness ==
    /\ fn["a"] = "generateObjectArray"
    /\ context["a"] = ""
    /\ pc["a"] = "returned"
    /\ result["a"] = Arr("")

\* C10: a call of generateText with a non-empty context on the provider path
\* issues exactly one completion request; when the request fails generateText
\* raises the very error the provider rejected with, and it issues no second
\* request.
C10_OneRequestErrorUnchanged ==
    \A i \in Invocations :
        (/\ fn[i] = "generateText"
         /\ context[i] # ""
         /\ ~(verifiableInference[i] /\ hasAdapter[i])) =>
            /\ providerRequests[i] = 1
            /\ adapterCalls[i] = 0 /\ verifyCalls[i] = 0
            /\ pc[i] \in { "text_provider", "returned", "raised" }
            /\ pc[i] = "raised" => result[i] = Err(caught[i])
            /\ pc[i] = "returned" => result[i] = Str(response[i])

C10_Witness ==
    /\ fn["a"] = "generateText"
    /\ context["a"] # ""
    /\ verifiableInference["a"] /\ ~hasAdapter["a"]
    /\ pc["a"] = "raised"
    /\ result["a"] = Err("E2")
    /\ providerRequests["a"] = 1

\* Invocation i is a call of generateText with a non-empty context that goes
\* through the verifiable-inference adapter.
OnAdapterPath(i) ==
    /\ fn[i] = "generateText"
    /\ context[i] # ""
    /\ verifiableInference[i] /\ hasAdapter[i]

\* C11: generateText with a non-empty context, the verifiableInference flag
\* and an adapter gets its text from the adapter only (one adapter call, no
\* provider request) and returns nothing before verifyProof was called on the
\* result: it returns the result's text only when verifyProof resolved with
\* true, and raises "Failed to verify inference proof" when it resolved with
\* false; the text of an unverified result is never returned.
C11_ReturnsOnlyVerifiedText ==
    /\ [](\A i \in Invocations :
            OnAdapterPath(i) =>
                /\ adapterCalls[i] = 1 /\ providerRequests[i] = 0
                /\ pc[i] \in { "text_adapter", "text_verify", "returned", "raised" }
                /\ pc[i] = "returned" =>
                      /\ verifyCalls[i] = 1
                      /\ isValid[i] = Verdict(TRUE)
                      /\ result[i] = Str(response[i])
                /\ isValid[i] = Verdict(FALSE) =>
                      pc[i] = "raised" /\ result[i] = ProofError
                /\ (Ended(i) /\ isValid[i] # Verdict(TRUE)) => pc[i] = "raised")
    /\ [][\A i \in Invocations :
            (OnAdapterPath(i) /\ pc'[i] = "returned") =>
                /\ pc[i] = "text_verify"
                /\ result'[i] = Str(proof[i])
         ]_vars

C11_Witness ==
    /\ OnAdapterPath("a")
    /\ pc["a"] = "returned"
    /\ isValid["a"] = Verdict(TRUE)
    /\ verifyCalls["a"] = 1
    /\ result["a"] = Str("banana")

\* C12: a call of generateText with a non-empty context that completes, on
\* the provider path or on the verifiable-inference path, has returned a
\* string or raised an error; it never completes with undefined or null.
C12_StringOrError ==
    \A i \in Invocations :
        (fn[i] = "generateText" /\ context[i] # "" /\ Ended(i)) =>
            /\ result[i] \notin { Null, Undefined }
            /\ pc[i] = "returned" => result[i].t = "string"
            /\ pc[i] = "raised" => result[i].t = "error"

C12_Witness ==
    /\ OnAdapterPath("a")
    /\ pc["a"] = "raised"
    /\ isValid["a"] = Verdict(FALSE)
    /\ result["a"] = ProofError

\* generateImage got as far as its `const apiKey`.
KeyResolved ==
    /\ imgPc \notin { "idle", "raised" }
    /\ imgResult.error # "No model settings available"

\* C13: generateImage never raises to its caller: whatever fails, the call
\* completes by returning an object whose success field is a boolean, with
\* success = false and the error when something failed.
C13_ImageNeverRaises ==
    /\ imgPc # "raised"
    /\ imgPc = "returned" =>
          /\ imgResult.success \in { "true", "false" }
          /\ imgResult.success = "false" => imgResult.error # Unset

\* The setting that holds the credential of an image provider.
OwnCredential(provider) ==
    CASE provider = "HEURIST" -> "HEURIST_API_KEY"
      [] provider = "NINETEEN_AI" -> "NINETEEN_AI_API_KEY"
      [] provider = "TOGETHER" -> "TOGETHER_API_KEY"
      [] provider = "FAL" -> "FAL_API_KEY"
      [] provider = "OPENAI" -> "OPENAI_API_KEY"
      [] provider = "VENICE" -> "VENICE_API_KEY"
      [] provider = "LIVEPEER" -> "LIVEPEER_GATEWAY_URL"
      [] OTHER -> Unset

\* C14: the API credential generateImage resolves is the credential of the
\* configured image provider when that is set, and otherwise the first that
\* is set of HEURIST_API_KEY, NINETEEN_AI_API_KEY, TOGETHER_API_KEY,
\* FAL_API_KEY, OPENAI_API_KEY, VENICE_API_KEY, LIVEPEER_GATEWAY_URL.
C14_OwnCredentialThenFallback ==
    KeyResolved =>
        LET own == OwnCredential(imageModelProvider) IN
        apiKey = IF own # Unset /\ settings[own] # Unset
                 THEN settings[own]
                 ELSE FirstSet(settings, FallbackChain)

\* The image providers generateImage has a branch of its own for.
BranchProviders ==
    { "HEURIST", "TOGETHER", "LLAMACLOUD", "FAL", "VENICE", "NINETEEN_AI",
      "LIVEPEER" }

\* C15: a provider that matches none of the Heurist, Together/LlamaCloud,
\* Fal, Venice, Nineteen AI and Livepeer branches is served by the default
\* (OpenAI) branch and by no other; the size that branch sends is
\* "<width>x<height>" when this is 1024x1024, 1792x1024 or 1024x1792, and
\* 1024x1024 otherwise.
C15_DefaultBranchSize ==
    /\ sent # NoRequest =>
          (sent.branch = "default" <=> imageModelProvider \notin BranchProviders)
    /\ (/\ imageModelProvider \notin BranchProviders
        /\ KeyResolved
        /\ settings["OPENAI_API_KEY"] # Unset) => sent.branch = "default"
    /\ sent.branch = "default" =>
          /\ sent.size \in { "1024x1024", "1792x1024", "1024x1792" }
          /\ sent.size =
                CASE width = 1024 /\ height = 1024 -> "1024x1024"
                  [] width = 1792 /\ height = 1024 -> "1792x1024"
                  [] width = 1024 /\ height = 1792 -> "1024x1792"
                  [] OTHER -> "1024x1024"

\* A request of 999 x 999 to a provider without a branch has been sent as
\* 1024x1024.
C15_Witness ==
    /\ imageModelProvider = "ANTHROPIC"
    /\ width = 999 /\ height = 999
    /\ imgPc = "request"
    /\ sent.branch = "default"
    /\ sent.size = "1024x1024"

\* C16: whenever the result of generateImage has success = true, every
\* entry of data is a data URL data:<mime-type>;base64,<payload> with a
\* non-empty payload: never the provider's raw value, a plain URL, or a data
\* URL with an empty or undefined payload.
C16_EntriesAreDataUrls ==
    imgResult.success = "true" =>
        \A k \in 1 .. Len(imgResult.data) :
            /\ imgResult.data[k].kind = "dataurl"
            /\ imgResult.data[k].mime \notin { "", "undefined" }
            /\ imgResult.data[k].payload \notin { "", "undefined" }

\* The data URLs the k-th image of the reply can give on the branch taken:
\* the body its URL serves, or the body of a response that is not ok.
DerivedFrom(k) ==
    LET target == FetchTarget(sent.branch, apiKey, images[k].url) IN
    { DataUrl(MimeOf(sent.branch, images[k]), Base64(body)) :
        body \in { Content(target), "E" } }

\* C17: when generateImage succeeds on the Together, Fal or Livepeer branch,
\* data is as long as the provider's image list and data[k] is derived from
\* the k-th image of the list, in whatever order the fetches completed.
C17_DataInProviderOrder ==
    (imgResult.success = "true" /\ sent.branch \in FetchingBranches) =>
        /\ Len(imgResult.data) = Len(images)
        /\ Len(fetchOrder) = Len(images)
        /\ \A k \in 1 .. Len(images) : imgResult.data[k] \in DerivedFrom(k)

\* The fetch of the second image completed before that of the first.
C17_Witness ==
    /\ imgResult.success = "true"
    /\ sent.branch = "together"
    /\ fetchOrder = << 2, 1 >>
    /\ images[1].url = "http://h/1" /\ images[2].url = "http://h/2"
    /\ imgResult.data =
          << DataUrl("image/jpeg", "QQ=="), DataUrl("image/jpeg", "Qg==") >>

\* C18: without an image-description service generateCaption fails with an
\* error and describeImage is never called; with one, describeImage is called
\* exactly once, with the image URL, the title and the description it gives
\* are returned trimmed, and an error of describeImage is raised to the
\* caller as it is, with no second call.
C18_CaptionSingleAttempt ==
    capPc # "idle" =>
        /\ ~hasDescriptionService =>
              /\ capPc = "raised"
              /\ capResult.error = "Image description service not found"
              /\ describeCalls = 0
        /\ hasDescriptionService =>
              /\ describeCalls = 1
              /\ described = imageUrl
              /\ capPc \in { "describe", "returned", "raised" }
        /\ capPc = "returned" =>
              /\ resp.title = " cat " => capResult.title = "cat"
              /\ resp.title = "a dog\n" => capResult.title = "a dog"
              /\ resp.title = "\tA  b " => capResult.title = "A  b"
              /\ resp.title \in { "cat", "" } => capResult.title = resp.title
              /\ resp.description = " cat " => capResult.description = "cat"
              /\ resp.description = "a dog\n" => capResult.description = "a dog"
              /\ resp.description = "\tA  b " => capResult.description = "A  b"
              /\ resp.description \in { "cat", "" } =>
                    capResult.description = resp.description
        /\ (capPc = "raised" /\ hasDescriptionService /\ resp = NoCaption) =>
              capResult.error \in Errors

C18_Witness ==
    /\ capPc = "returned"
    /\ describeCalls = 1
    /\ resp.title = " cat " /\ resp.description = "a dog\n"
    /\ capResult.title = "cat" /\ capResult.description = "a dog"

\* C19: when trimTokens returns for a non-empty context and a positive
\* maxTokens and the tokenizer worked, a context of at most maxTokens tokens
\* is returned unchanged, any other result is the decoding of the last
\* maxTokens tokens, and the result encodes to at most maxTokens tokens.
C19_TrimWithinLimit ==
    (trimPc = "returned" /\ trimContext # << >> /\ maxTokens > 0
        /\ Tokenizing(tokenizer)) =>
        LET tokens == EncodeWith(tokenizer, trimContext) IN
        /\ Len(tokens) <= maxTokens => trimResult.text = trimContext
        /\ Len(tokens) > maxTokens =>
              trimResult.text = Decode(SliceLast(tokens, maxTokens))
        /\ Len(EncodeWith(tokenizer, trimResult.text)) <= maxTokens

\* The tokenizer settings are invalid or incomplete: the type is none of
\* the supported ones, or only one of the two settings is there.
InvalidSettings ==
    \/ tokenizerType \notin { Unset, "auto", "tiktoken" }
    \/ (tokenizerModel = Unset) # (tokenizerType = Unset)

\* C20: a call of trimTokens for a non-empty context under invalid or
\* incomplete tokenizer settings ends with an error.
C20_InvalidSettingsRaise ==
    (trimPc \in { "returned", "raised" } /\ trimContext # << >>
        /\ InvalidSettings) => trimPc = "raised"

\* C22: in generateMessageResponse an attempt whose response does not parse
\* is followed by the next text call at once, with no wait and the delay
\* unchanged; an attempt that raised doubles the delay and then waits for
\* it, so that the k-th wait lasts 1000 * 2^k ms (the first 2000 ms) and
\* there is one wait per caught exception.
C22_MessageResponseSchedule ==
    /\ [](\A i \in Invocations :
            fn[i] = "generateMessageResponse" =>
                /\ \A k \in 1 .. Len(waits[i]) :
                        waits[i][k] = InitialDelay * Pow2(k)
                /\ Len(waits[i]) = IF pc[i] = "wait" THEN thrown[i] - 1
                                   ELSE thrown[i]
                /\ pc[i] = "wait" => timer[i] = InitialDelay * Pow2(thrown[i])
                /\ retryDelay[i] = InitialDelay * Pow2(thrown[i]))
    /\ [][\A i \in Invocations :
            (fn[i] = "generateMessageResponse" /\ fails'[i] = fails[i] + 1) =>
                IF thrown'[i] = thrown[i]
                THEN /\ pc'[i] = "loop"
                     /\ timer'[i] = 0
                     /\ waits'[i] = waits[i]
                     /\ retryDelay'[i] = retryDelay[i]
                ELSE /\ pc'[i] = "wait"
                     /\ retryDelay'[i] = 2 * retryDelay[i]
                     /\ timer'[i] = retryDelay'[i]
         ]_vars

C22_Witness ==
    /\ fn["a"] = "generateMessageResponse"
    /\ pc["a"] = "text_provider"
    /\ thrown["a"] = 2 /\ fails["a"] = 3
    /\ waits["a"] = << 2000, 4000 >>

\* The generators that reach their loop whatever the context is.
UncheckedGenerators ==
    { "generateShouldRespond", "generateTweetActions",
      "generateMessageResponse" }

\* Invocation i is one of these generators called with an empty context,
\* and its parser rejects the empty string.
EmptyContextLoop(i) ==
    /\ fn[i] \in UncheckedGenerators
    /\ context[i] = ""
    /\ ~Accepted(fn[i], ParseFor(fn[i], ""))

\* C23: generateShouldRespond, generateTweetActions and
\* generateMessageResponse called with an empty context never return and
\* never raise; they go on making text calls (as many as the model allows),
\* every one of which gives "" without a request to the provider or a call
\* of the adapter.
C23_EmptyContextNeverEnds ==
    /\ [](\A i \in Invocations :
            EmptyContextLoop(i) =>
                /\ pc[i] \in { "loop", "text_short", "wait" }
                /\ providerRequests[i] = 0
                /\ adapterCalls[i] = 0 /\ verifyCalls[i] = 0
                /\ thrown[i] = 0
                /\ response[i] = NoText)
    /\ [][\A i \in Invocations :
            (EmptyContextLoop(i) /\ pc[i] = "text_short"
                /\ pc'[i] # pc[i]) => fails'[i] = fails[i] + 1
         ]_vars
    /\ \A i \in Invocations :
            EmptyContextLoop(i) ~> (calls[i] = MaxCalls /\ fails[i] = MaxCalls)

C23_Witness ==
    /\ fn["a"] = "generateTweetActions"
    /\ context["a"] = ""
    /\ verifiableInference["a"] /\ hasAdapter["a"]
    /\ calls["a"] = 4 /\ fails["a"] = 4
    /\ waits["a"] = << 1000, 2000, 4000 >>
    /\ providerRequests["a"] = 0

\* Invocation i is a call of generateText with a non-empty context and the
\* verifiableInference flag, on a runtime without an adapter.
FlagWithoutAdapter(i) ==
    /\ fn[i] = "generateText"
    /\ context[i] # ""
    /\ verifiableInference[i] /\ ~hasAdapter[i]

\* C24: a call of generateText that goes through the adapter never contacts
\* the provider; it raises when the adapter's generateText or verifyProof
\* rejects (with that error) and when verifyProof resolves with false, and
\* returns in no other case than a proof found valid.  A call with the flag
\* on a runtime without an adapter makes its one request to the provider and
\* returns the provider's text, with no adapter call and no proof check.
C24_NoFallbackNoSilentCheck ==
    /\ [](\A i \in Invocations :
            /\ OnAdapterPath(i) =>
                  /\ providerRequests[i] = 0
                  /\ pc[i] # "text_provider"
                  /\ pc[i] = "raised" =>
                        /\ result[i] = Err(caught[i])
                        /\ isValid[i] # Verdict(TRUE)
                        /\ isValid[i] = Verdict(FALSE) =>
                              result[i] = ProofError
                  /\ pc[i] = "returned" => isValid[i] = Verdict(TRUE)
            /\ FlagWithoutAdapter(i) =>
                  /\ providerRequests[i] = 1
                  /\ adapterCalls[i] = 0 /\ verifyCalls[i] = 0
                  /\ isValid[i] = NoVerdict /\ proof[i] = NoText
                  /\ pc[i] = "returned" => result[i] = Str(response[i]))
    /\ [][\A i \in Invocations :
            (OnAdapterPath(i) /\ pc[i] \in { "text_adapter", "text_verify" }
                /\ thrown'[i] = thrown[i] + 1) =>
                    /\ pc'[i] = "raised"
                    /\ calls'[i] = calls[i]
                    /\ providerRequests'[i] = 0
         ]_vars

\* verifyProof rejected: generateText raised that error and made no request.
C24_Witness ==
    /\ OnAdapterPath("a")
    /\ pc["a"] = "raised"
    /\ verifyCalls["a"] = 1
    /\ isValid["a"] = NoVerdict
    /\ result["a"] = Err("E1")
    /\ providerRequests["a"] = 0

\* The branches whose result is all or nothing.
StrictBranches == { "together", "livepeer" }

\* C25: a result of generateImage on the Together or Livepeer branch is
\* either a failure, with an error and no data, or a success whose data has
\* one data URL for every image of a non-empty reply; the call fails when
\* the reply lists no image and when it returns at a step in which no fetch
\* was completed (a fetch failed or its response was not ok).
C25_AllOrNothing ==
    /\ []((Branch(imageModelProvider) \in StrictBranches
              /\ imgPc = "returned") =>
            /\ imgResult.success \in { "true", "false" }
            /\ imgResult.success = "false" =>
                  imgResult.data = << >> /\ imgResult.error # Unset
            /\ imgResult.success = "true" =>
                  /\ images # << >>
                  /\ Len(imgResult.data) = Len(images)
                  /\ Len(fetchOrder) = Len(images)
                  /\ \A k \in 1 .. Len(images) :
                        /\ imgResult.data[k].kind = "dataurl"
                        /\ imgResult.data[k] =
                              DataUrl("image/jpeg",
                                      Base64(Content(FetchTarget(sent.branch,
                                                 apiKey, images[k].url)))))
    /\ [][(Branch(imageModelProvider) \in StrictBranches
              /\ imgPc \in { "request", "json", "fetching" }
              /\ imgPc' = "returned"
              /\ fetchOrder' = fetchOrder) =>
                imgResult'.success = "false"
         ]_vars

\* Livepeer served both images of its reply, the second from a relative URL.
C25_Witness ==
    /\ imageModelProvider = "LIVEPEER"
    /\ imgPc = "returned"
    /\ imgResult.success = "true"
    /\ Len(images) = 2 /\ images[2].url = "/3"
    /\ Len(imgResult.data) = 2

\* Neither of the two settings getWalletKey reads for the kind of key asked
\* for is there.
NeededSettingAbsent ==
    IF Required(requirePrivateKey)
    THEN /\ walletSettings["SOLANA_PRIVATE_KEY"] = Unset
         /\ walletSettings["WALLET_PRIVATE_KEY"] = Unset
    ELSE /\ walletSettings["SOLANA_PUBLIC_KEY"] = Unset
         /\ walletSettings["WALLET_PUBLIC_KEY"] = Unset

\* C21: a result getWalletKey returns has a keypair and no publicKey when
\* the private key was asked for, a publicKey and no keypair when it was
\* not, and so exactly one of the two; when the settings of the kind asked
\* for are absent the call raises an error and returns nothing.
C21_KindRequested ==
    /\ walletPc = "returned" =>
          /\ walletResult.error = Unset
          /\ (walletResult.keypair = Unset) # (walletResult.publicKey = Unset)
          /\ Required(requirePrivateKey) =>
                walletResult.keypair # Unset /\ walletResult.publicKey = Unset
          /\ ~Required(requirePrivateKey) =>
                walletResult.publicKey # Unset /\ walletResult.keypair = Unset
    /\ (walletPc # "idle" /\ NeededSettingAbsent) =>
          /\ walletPc = "raised"
          /\ walletResult.error # Unset
          /\ walletResult.keypair = Unset /\ walletResult.publicKey = Unset

\* The public key was asked for on a runtime that has a private key too.
C21_Witness ==
    /\ requirePrivateKey = "false"
    /\ walletPc = "returned"
    /\ walletSettings["SOLANA_PRIVATE_KEY"] = "58:secretA"
    /\ walletSettings["SOLANA_PUBLIC_KEY"] = Unset
    /\ walletSettings["WALLET_PUBLIC_KEY"] = "pubB"
    /\ walletResult = [NoKey EXCEPT !.publicKey = "publicKey:pubB"]

\* The key string of the private-key branch: SOLANA_PRIVATE_KEY unless it is
\* null or undefined, WALLET_PRIVATE_KEY then.
KeyStringRead ==
    IF walletSettings["SOLANA_PRIVATE_KEY"] # Unset
    THEN walletSettings["SOLANA_PRIVATE_KEY"]
    ELSE walletSettings["WALLET_PRIVATE_KEY"]

\* C26: getWalletKey asked for the private key works on SOLANA_PRIVATE_KEY,
\* and on WALLET_PRIVATE_KEY only when the former is null or undefined; it
\* tries base58 first and base64 only when the base58 attempt raised,
\* raises "Invalid private key format" exactly when both attempts raise,
\* and returns the keypair of the base58 attempt, without a base64
\* decoding, whenever that attempt succeeds.
C26_PrivateKeyDecoding ==
    (walletPc # "idle" /\ Required(requirePrivateKey)) =>
        IF KeyStringRead \in { Unset, "" }
        THEN /\ walletPc = "raised"
             /\ walletResult.error = "Private key not found in settings"
             /\ decodings = << >>
        ELSE /\ decodings \in { << "base58" >>, << "base58", "base64" >> }
             /\ (Len(decodings) = 2) <=> (Base58Attempt(KeyStringRead) = Throws)
             /\ (walletResult.error = "Invalid private key format") <=>
                    /\ Base58Attempt(KeyStringRead) = Throws
                    /\ Base64Attempt(KeyStringRead) = Throws
             /\ (walletPc = "raised") <=>
                    (walletResult.error = "Invalid private key format")
             /\ Base58Attempt(KeyStringRead) # Throws =>
                    /\ walletPc = "returned"
                    /\ walletResult.keypair = Base58Attempt(KeyStringRead)
             /\ (walletPc = "returned" /\ Len(decodings) = 2) =>
                    walletResult.keypair = Base64Attempt(KeyStringRead)

\* WALLET_PRIVATE_KEY was used, and its base58 decoding was no secret key.
C26_Witness ==
    /\ requirePrivateKey = Unset
    /\ walletSettings["SOLANA_PRIVATE_KEY"] = Unset
    /\ walletSettings["WALLET_PRIVATE_KEY"] = "64:secretC"
    /\ walletPc = "returned"
    /\ decodings = << "base58", "base64" >>
    /\ walletResult.keypair = "keypair:secretC"

====
